---- MODULE Spec2Model ----
(***************************************************************************)
(* Order / stock / payment reconciliation of the furniture-hub backend.    *)
(*                                                                         *)
(* The database holds the Product documents (their stock) and the Order    *)
(* documents.  Every HTTP request is a process that runs its handler up to *)
(* the next await: a read of the database (findById, findOne,              *)
(* countDocuments) and a write to it (save, create, findByIdAndUpdate) are *)
(* separate atomic steps, and the synchronous code between two awaits      *)
(* belongs to the step that the first await ends.                          *)
(*                                                                         *)
(* save() of a loaded document writes only what the handler changed in its *)
(* copy: a changed scalar path is $set, statusHistory.push is a $push on   *)
(* the stored array.  The pre('save') hooks of a new Order are taken to    *)
(* run before the document is written, as the source states them.          *)
(***************************************************************************)
EXTENDS Integers, Sequences, FiniteSets, TLC

\* ------------------------------------------------------------ bounds
MaxStock    == 2      \* the better-stocked product is seeded with MaxStock units
MaxRequests == 3      \* requests started in one behaviour of Spec
MaxPayRequests == 4   \* requests started in one behaviour of SpecPayment
MaxClock    == 2      \* readings of the wall clock are in 1..MaxClock
MaxExtraDigits == 1   \* digits after the ninth subscriber digit of a phone argument

\* ------------------------------------------------------------ data
Products == {"p1", "p2"}
Procs    == {1, 2}
Cities   == {"thika"}
Undefined == "undefined"
NoTx == -1            \* paymentDetails.transactionId not set

\* Catalog prices of the seeded products (salePrice 0: none).
Price     == [p \in Products |-> IF p = "p1" THEN 300 ELSE 500]
SalePrice == [p \in Products |-> IF p = "p1" THEN 0 ELSE 450]

OrderStatuses == {"pending", "confirmed", "processing", "shipped", "delivered", "cancelled"}

\* Target statuses the admin asks for: a cancellable one, blocking ones, cancelled.
TargetStatuses == {"pending", "shipped", "delivered", "cancelled"}

\* An id that is no product's.
Missing == "p0"

\* req.body.items of createOrder: one line item, or two of different
\* products, or a line item of a product followed by one of no product.
Quantities == {1, 2}
LineItems == [product : Products, quantity : Quantities]
ItemLists == {<<i>> : i \in LineItems}
             \cup {l \in {<<i, j>> : i \in LineItems, j \in LineItems} :
                      l[1].product # l[2].product}
             \cup {<<[product |-> "p2", quantity |-> 1],
                     [product |-> Missing, quantity |-> 1]>>}

VARIABLES
  stock,      \* Product.stock of every product, as stored
  orders,     \* the Order collection: a sequence, an order's id is its index
  req,        \* the request each process is handling, and where it stands
  budget,     \* number of requests that may still start
  pushes,     \* the gateway's accepted pushes: pushes[tx] is the order tx pays for
  clock,      \* last reading of the wall clock
  restored,   \* per order and product, units added back by cancel requests
  phoneCall   \* a call of formatPhoneNumber: its argument and how it ended

vars == <<stock, orders, req, budget, pushes, clock, restored, phoneCall>>

\* ------------------------------------------------------------ helpers
RECURSIVE SumSeq(_)
SumSeq(s) == IF s = <<>> THEN 0 ELSE Head(s) + SumSeq(Tail(s))

\* Units of product p in a list of line items.
Units(items, p) ==
  SumSeq([i \in 1..Len(items) |-> IF items[i].product = p THEN items[i].quantity ELSE 0])

\* paymentDetails as a handler reads it: the four paths of the schema, and
\* failureReason, which the schema does not declare.
EmptyDetails ==
  [mpesaReceiptNumber |-> Undefined, transactionId |-> NoTx,
   phoneNumber |-> Undefined, paidAt |-> 0, failureReason |-> Undefined]

NoDoc ==
  [orderNumber |-> 0, items |-> <<>>, subtotal |-> 0, deliveryFee |-> 0, total |-> 0,
   paymentStatus |-> "pending", paymentDetails |-> EmptyDetails,
   orderStatus |-> "pending", statusHistory |-> <<>>]

\* Stock the products are seeded with: one last unit of p1, MaxStock units of p2.
SeedStock == [p \in Products |-> IF p = "p1" THEN 1 ELSE MaxStock]

IdleReq ==
  [kind |-> "none", pc |-> "idle", result |-> "none", items |-> <<>>, city |-> "none",
   idx |-> 0, orderItems |-> <<>>, subtotal |-> 0, newStock |-> 0, count |-> 0,
   order |-> 0, doc |-> NoDoc, arg |-> "none", now |-> 0,
   pre |-> SeedStock, solo |-> TRUE]

Active(r) == req[r].pc \notin {"idle", "done"}

\* A request starts on the lowest process that is free.
Free(r) == ~Active(r) /\ \A q \in Procs : q < r => Active(q)

\* solo: no other request has been in progress since this one started;
\* pre: the stock a createOrder request started from, kept while it is solo.
Begin(r, rec) ==
  LET alone == \A o \in Procs \ {r} : ~Active(o) IN
  /\ Free(r)
  /\ budget > 0
  /\ budget' = budget - 1
  /\ UNCHANGED phoneCall
  /\ req' = [q \in Procs |->
               IF q = r
                 THEN [rec EXCEPT !.solo = alone \/ rec.pc = "done",
                                  !.pre = IF alone /\ rec.kind = "createOrder" THEN stock ELSE @]
               ELSE IF Active(q) THEN [req[q] EXCEPT !.solo = FALSE, !.pre = SeedStock]
               ELSE req[q]]

\* The response is sent: the request keeps its kind, its target and its outcome.
Finish(r, res) ==
  [IdleReq EXCEPT !.kind = req[r].kind, !.pc = "done", !.result = res,
                  !.order = req[r].order]

Step(r, rec) == req' = [req EXCEPT ![r] = rec] /\ UNCHANGED phoneCall

\* ------------------------------------------------------------ Product
\* productSchema.methods.updateStock: the new value of this.stock.
updateStock(s, quantity) ==
  LET d == s - quantity IN IF d < 0 THEN 0 ELSE d

\* A cancel that takes the units away again instead of giving them back.
restoreStock_decrement(s, quantity) == s - quantity

\* cancelOrder's $inc of Product.stock.
restoreStock(s, quantity) == s + quantity

\* createOrder's availability test on the product it has just read.
insufficientStock(s, quantity) == s < quantity

\* product.salePrice || product.price
unitPrice(p) == IF SalePrice[p] # 0 THEN SalePrice[p] ELSE Price[p]

\* calculateDeliveryFee: deliveryRates[city] || deliveryRates.default
calculateDeliveryFee(city) ==
  LET rate == IF city = "nairobi" THEN 0 ELSE IF city = "thika" THEN 500 ELSE 0
  IN IF rate # 0 THEN rate ELSE 1000

\* ------------------------------------------------------------ Order
\* A guard that also lets a shipped order through.
canBeCancelled_shipped(o) == o.orderStatus \in {"pending", "confirmed", "shipped"}

canBeCancelled(o) == o.orderStatus \in {"pending", "confirmed"}

Entry(status, note) == [status |-> status, note |-> note]

\* orderSchema.methods.updateStatus on the loaded copy.
updateStatus(o, newStatus, note) ==
  [o EXCEPT !.orderStatus = newStatus,
            !.statusHistory = Append(@, Entry(newStatus, note))]

\* orderSchema.methods.cancelOrder on the loaded copy (after its guard).
Order_cancelOrder(o) ==
  [o EXCEPT !.orderStatus = "cancelled",
            !.statusHistory = Append(@, Entry("cancelled", "Cancelled"))]

\* The paths of paymentDetails the strict schema tracks and writes: a
\* property set on the copy that the schema does not declare is left out.
schemaPaths(d) == [d EXCEPT !.failureReason = Undefined]

\* A save() that writes the copy's whole statusHistory over the stored one.
save_overwritesHistory(db, doc, cur) ==
  [db EXCEPT
     !.orderStatus = IF cur.orderStatus # doc.orderStatus THEN cur.orderStatus ELSE @,
     !.paymentStatus = IF cur.paymentStatus # doc.paymentStatus THEN cur.paymentStatus ELSE @,
     !.paymentDetails = IF schemaPaths(cur.paymentDetails) # schemaPaths(doc.paymentDetails)
                          THEN schemaPaths(cur.paymentDetails) ELSE @,
     !.statusHistory = cur.statusHistory]

\* save() of a loaded copy: doc as loaded, cur as changed by the handler,
\* db as stored now.  Changed scalars are $set, pushed entries are $push-ed.
save(db, doc, cur) ==
  [db EXCEPT
     !.orderStatus = IF cur.orderStatus # doc.orderStatus THEN cur.orderStatus ELSE @,
     !.paymentStatus = IF cur.paymentStatus # doc.paymentStatus THEN cur.paymentStatus ELSE @,
     !.paymentDetails = IF schemaPaths(cur.paymentDetails) # schemaPaths(doc.paymentDetails)
                          THEN schemaPaths(cur.paymentDetails) ELSE @,
     !.statusHistory = @ \o SubSeq(cur.statusHistory, Len(doc.statusHistory) + 1,
                                   Len(cur.statusHistory))]

\* An order whose total leaves the delivery fee out.
newOrder_totalWithoutFee(orderItems, subtotal, city, count) ==
  [orderNumber |-> count + 1, items |-> orderItems, subtotal |-> subtotal,
   deliveryFee |-> calculateDeliveryFee(city), total |-> subtotal,
   paymentStatus |-> "pending", paymentDetails |-> EmptyDetails,
   orderStatus |-> "pending",
   statusHistory |-> <<[status |-> "pending", note |-> "Order created"]>>]

\* The document Order.create writes: schema defaults and both pre('save') hooks.
newOrder(orderItems, subtotal, city, count) ==
  LET fee == calculateDeliveryFee(city) IN
  [orderNumber |-> count + 1, items |-> orderItems, subtotal |-> subtotal,
   deliveryFee |-> fee, total |-> subtotal + fee,
   paymentStatus |-> "pending", paymentDetails |-> EmptyDetails,
   orderStatus |-> "pending",
   statusHistory |-> <<Entry("pending", "Order created")>>]

\* ------------------------------------------------------------ createOrder
createOrder(r, items, city) ==
  /\ Begin(r, [IdleReq EXCEPT !.kind = "createOrder", !.pc = "findById",
                              !.items = items, !.city = city, !.idx = 1])
  /\ UNCHANGED <<stock, orders, pushes, clock, restored>>

\* Product.findById resolves; the checks, the snapshot and updateStock's
\* change of the loaded product run up to its save().
createOrder_findById(r) ==
  LET q    == req[r]
      item == q.items[q.idx]
      s    == stock[item.product]
  IN
  /\ q.kind = "createOrder" /\ q.pc = "findById"
  /\ IF item.product \notin Products
       THEN Step(r, Finish(r, "ProductNotFound"))
     ELSE IF insufficientStock(s, item.quantity)
       THEN Step(r, Finish(r, "InsufficientStock"))
       ELSE Step(r, [q EXCEPT
              !.pc = "updateStock",
              !.orderItems = Append(@, [product |-> item.product,
                                        price |-> unitPrice(item.product),
                                        quantity |-> item.quantity]),
              !.subtotal = @ + unitPrice(item.product) * item.quantity,
              !.newStock = updateStock(s, item.quantity)])
  /\ UNCHANGED <<stock, orders, budget, pushes, clock, restored>>

\* product.save() inside updateStock writes the stock computed from the read.
createOrder_updateStock(r) ==
  LET q == req[r]
      item == q.items[q.idx]
  IN
  /\ q.kind = "createOrder" /\ q.pc = "updateStock"
  /\ stock' = [stock EXCEPT ![item.product] = q.newStock]
  /\ Step(r, [q EXCEPT !.idx = @ + 1,
                       !.pc = IF q.idx = Len(q.items) THEN "countDocuments" ELSE "findById"])
  /\ UNCHANGED <<orders, budget, pushes, clock, restored>>

\* pre('save'): countDocuments of today's orders.
createOrder_countDocuments(r) ==
  LET q == req[r] IN
  /\ q.kind = "createOrder" /\ q.pc = "countDocuments"
  /\ Step(r, [q EXCEPT !.pc = "create", !.count = Len(orders)])
  /\ UNCHANGED <<stock, orders, budget, pushes, clock, restored>>

\* Order.create writes the document; orderNumber is unique.
createOrder_create(r) ==
  LET q == req[r]
      o == newOrder(q.orderItems, q.subtotal, q.city, q.count)
  IN
  /\ q.kind = "createOrder" /\ q.pc = "create"
  /\ IF \E i \in 1..Len(orders) : orders[i].orderNumber = o.orderNumber
       THEN /\ Step(r, Finish(r, "DuplicateOrderNumber"))
            /\ UNCHANGED <<orders, restored>>
       ELSE /\ orders' = Append(orders, o)
            /\ restored' = Append(restored, [p \in Products |-> 0])
            /\ Step(r, [Finish(r, "Created") EXCEPT !.order = Len(orders) + 1])
  /\ UNCHANGED <<stock, budget, pushes, clock>>

\* ------------------------------------------------------------ cancelOrder
cancelOrder(r, id) ==
  /\ id \in 1..Len(orders)
  /\ Begin(r, [IdleReq EXCEPT !.kind = "cancelOrder", !.pc = "findById", !.order = id])
  /\ UNCHANGED <<stock, orders, pushes, clock, restored>>

\* Order.findById resolves; order.cancelOrder runs up to its save().
cancelOrder_findById(r) ==
  LET q == req[r]
      doc == orders[q.order]
  IN
  /\ q.kind = "cancelOrder" /\ q.pc = "findById"
  /\ IF ~canBeCancelled(doc)
       THEN Step(r, Finish(r, "CannotBeCancelled"))
       ELSE Step(r, [q EXCEPT !.pc = "save", !.doc = doc])
  /\ UNCHANGED <<stock, orders, budget, pushes, clock, restored>>

cancelOrder_save(r) ==
  LET q == req[r] IN
  /\ q.kind = "cancelOrder" /\ q.pc = "save"
  /\ orders' = [orders EXCEPT ![q.order] = save(@, q.doc, Order_cancelOrder(q.doc))]
  /\ Step(r, [q EXCEPT !.pc = "restore", !.idx = 1])
  /\ UNCHANGED <<stock, budget, pushes, clock, restored>>

\* Product.findByIdAndUpdate(item.product, {$inc: {stock: item.quantity}})
cancelOrder_restore(r) ==
  LET q == req[r]
      item == q.doc.items[q.idx]
  IN
  /\ q.kind = "cancelOrder" /\ q.pc = "restore"
  /\ stock' = [stock EXCEPT ![item.product] = restoreStock(@, item.quantity)]
  /\ restored' = [restored EXCEPT ![q.order][item.product] = @ + item.quantity]
  /\ IF q.idx = Len(q.doc.items)
       THEN Step(r, Finish(r, "Cancelled"))
       ELSE Step(r, [q EXCEPT !.idx = @ + 1])
  /\ UNCHANGED <<orders, budget, pushes, clock>>

\* ------------------------------------------------------------ updateOrderStatus
updateOrderStatus(r, id, status) ==
  /\ id \in 1..Len(orders)
  /\ Begin(r, [IdleReq EXCEPT !.kind = "updateOrderStatus", !.pc = "findById",
                              !.order = id, !.arg = status])
  /\ UNCHANGED <<stock, orders, pushes, clock, restored>>

updateOrderStatus_findById(r) ==
  LET q == req[r] IN
  /\ q.kind = "updateOrderStatus" /\ q.pc = "findById"
  /\ Step(r, [q EXCEPT !.pc = "save", !.doc = orders[q.order]])
  /\ UNCHANGED <<stock, orders, budget, pushes, clock, restored>>

updateOrderStatus_save(r) ==
  LET q == req[r] IN
  /\ q.kind = "updateOrderStatus" /\ q.pc = "save"
  /\ orders' = [orders EXCEPT ![q.order] =
                  save(@, q.doc, updateStatus(q.doc, q.arg, "Status changed"))]
  /\ Step(r, Finish(r, "Updated"))
  /\ UNCHANGED <<stock, budget, pushes, clock, restored>>

\* ------------------------------------------------------------ initiatePayment
Phone == "254712345678"

initiatePayment(r, id, amount) ==
  /\ id \in 1..Len(orders)
  /\ Begin(r, [IdleReq EXCEPT !.kind = "initiatePayment", !.pc = "findById",
                              !.order = id, !.arg = amount])
  /\ UNCHANGED <<stock, orders, pushes, clock, restored>>

\* A check that lets a difference of 2 through.
amountMismatch_loose(amount, total) ==
  (IF amount >= total THEN amount - total ELSE total - amount) > 2

\* Math.abs(amount - order.total) > 1
amountMismatch(amount, total) ==
  (IF amount >= total THEN amount - total ELSE total - amount) > 1

initiatePayment_findById(r) ==
  LET q == req[r]
      doc == orders[q.order]
  IN
  /\ q.kind = "initiatePayment" /\ q.pc = "findById"
  /\ IF doc.paymentStatus = "paid"
       THEN Step(r, Finish(r, "AlreadyPaid"))
       ELSE IF amountMismatch(q.arg, doc.total)
         THEN Step(r, Finish(r, "AmountMismatch"))
         ELSE Step(r, [q EXCEPT !.pc = "initiateSTKPush", !.doc = doc])
  /\ UNCHANGED <<stock, orders, budget, pushes, clock, restored>>

\* How the call of the gateway ends: the push is accepted (ResponseCode '0'
\* with a fresh CheckoutRequestID), the gateway turns it down, no answer
\* comes (transport error, timeout), or no access token could be got.
BusinessFailures == {"rejected"}
UpstreamFailures == {"timeout", "tokenFailed"}
GatewayOutcomes == {"accepted"} \cup BusinessFailures \cup UpstreamFailures

\* A handler that goes on to its save() whatever the call of the gateway gave.
handlerContinues_always(outcome) == TRUE

\* initiateSTKPush returns (the handler goes on) or throws (it stops).
handlerContinues(outcome) == outcome = "accepted"

\* What initiateSTKPush throws, as the caller gets it: its catch wraps every
\* error in ErrorResponse('M-Pesa payment failed: ...', 400).
pushError(outcome) == "PaymentFailed"

\* The gateway call ends; CheckoutRequestID is 0 when the gateway gave none.
initiatePayment_initiateSTKPush(r, outcome) ==
  LET q == req[r]
      tx == IF outcome = "accepted" THEN Len(pushes) + 1 ELSE 0
  IN
  /\ q.kind = "initiatePayment" /\ q.pc = "initiateSTKPush"
  /\ pushes' = IF outcome = "accepted" THEN Append(pushes, q.order) ELSE pushes
  /\ IF handlerContinues(outcome)
       THEN Step(r, [q EXCEPT !.pc = "save", !.arg = tx])
       ELSE Step(r, Finish(r, pushError(outcome)))
  /\ UNCHANGED <<stock, orders, budget, clock, restored>>

\* order.paymentDetails = {...order.paymentDetails, phoneNumber, transactionId}
recordPush(o, phone, tx) ==
  [o EXCEPT !.paymentDetails = [@ EXCEPT !.phoneNumber = phone, !.transactionId = tx]]

initiatePayment_save(r) ==
  LET q == req[r] IN
  /\ q.kind = "initiatePayment" /\ q.pc = "save"
  /\ orders' = [orders EXCEPT ![q.order] = save(@, q.doc, recordPush(q.doc, Phone, q.arg))]
  /\ Step(r, Finish(r, "PushSent"))
  /\ UNCHANGED <<stock, budget, pushes, clock, restored>>

\* ------------------------------------------------------------ formatPhoneNumber
\* A string is the sequence of its characters.
PhoneLength == 12
CountryCode == <<"2", "5", "4">>
Digits == {"0", "1", "2", "3", "4", "5", "6", "7", "8", "9"}

startsWith(str, prefix) ==
  Len(str) >= Len(prefix) /\ SubSeq(str, 1, Len(prefix)) = prefix

\* phone.replace(/[\s\-\+]/g, '')
stripSeparators(str) == SelectSeq(str, LAMBDA c : c \notin {" ", "-", "+"})

\* formatPhoneNumber: the string returned, or the error thrown.
formatPhoneNumber(str) ==
  LET cleaned == stripSeparators(str)
      local   == IF startsWith(cleaned, <<"0">>) THEN CountryCode \o Tail(cleaned)
                 ELSE cleaned
      full    == IF ~startsWith(local, CountryCode) THEN CountryCode \o local ELSE local
  IN IF Len(full) # PhoneLength
       THEN [status |-> "threw", value |-> <<>>]
       ELSE [status |-> "returned", value |-> full]

\* The arguments tried: a lead (none, 0, the country code with or without
\* plus and space, ...), the nine subscriber characters (the seventh a digit
\* or a letter) in three groups joined by a separator (none, space, dash, or
\* a letter), and up to MaxExtraDigits more digits.
Leads ==
  {<<>>, <<"0">>, <<"+">>, <<"0", "0">>, <<"2", "5", "4">>, <<"+", "2", "5", "4">>,
   <<"+", "2", "5", "4", " ">>, <<"2", "5", "4", "0">>}
Separators == {<<>>, <<" ">>, <<"-">>, <<"x">>}
Subscriber(sep, c) ==
  <<"7", "1", "2">> \o sep \o <<"3", "4", "5">> \o sep \o <<c, "7", "8">>
PhoneInputs ==
  {lead \o Subscriber(sep, c) \o [k \in 1..n |-> "9"] :
     lead \in Leads, sep \in Separators, c \in {"6", "x"}, n \in 0..MaxExtraDigits}

NoCall == [input |-> <<>>, result |-> [status |-> "none", value |-> <<>>]]

callFormatPhoneNumber ==
  /\ phoneCall.result.status = "none"
  /\ phoneCall' = [phoneCall EXCEPT !.result = formatPhoneNumber(phoneCall.input)]
  /\ UNCHANGED <<stock, orders, req, budget, pushes, clock, restored>>

\* ------------------------------------------------------------ mpesaCallback
\* The bodies posted to the callback URL: whether Body.stkCallback is there
\* (stk), the CheckoutRequestID (0: one no push of this shop got), the
\* ResultCode, and for a success whether CallbackMetadata is there and
\* carries the MpesaReceiptNumber item.
Receipt == "RCPT"
NoMetadata == "absent"
Callbacks(txs) ==
  [stk : {TRUE}, tx : txs, code : {0, 1032}, receipt : {Receipt}]
  \cup [stk : {TRUE}, tx : txs, code : {0}, receipt : {Undefined, NoMetadata}]
  \cup [stk : {FALSE}, tx : {0}, code : {0}, receipt : {Undefined}]

\* processCallback throws: Body or stkCallback is missing, or a success
\* carries no CallbackMetadata.
processCallback_throws(body) ==
  ~body.stk \/ (body.code = 0 /\ body.receipt = NoMetadata)

\* stkCallback.ResultDesc as the gateway words it.
ResultDesc(code) ==
  IF code = 0 THEN "The service request is processed successfully."
  ELSE "Request cancelled by user"

\* processCallback: the result the controller works with.
processCallback(body) ==
  [checkoutRequestId |-> body.tx,
   resultDesc |-> ResultDesc(body.code),
   success |-> (body.code = 0),
   mpesaReceiptNumber |-> IF body.code = 0 THEN body.receipt ELSE Undefined,
   phoneNumber |-> IF body.code = 0 THEN Phone ELSE Undefined]

\* A lookup that falls back to the first order when none matches.
findOne_first(tx) ==
  LET hits == {i \in 1..Len(orders) : orders[i].paymentDetails.transactionId = tx}
  IN IF hits = {} THEN (IF orders = <<>> THEN 0 ELSE 1)
     ELSE CHOOSE i \in hits : \A j \in hits : i <= j

\* Order.findOne({'paymentDetails.transactionId': tx}): the first match, 0 if none.
findOne(tx) ==
  LET hits == {i \in 1..Len(orders) : orders[i].paymentDetails.transactionId = tx}
  IN IF hits = {} THEN 0 ELSE CHOOSE i \in hits : \A j \in hits : i <= j

\* markAsPaid without its test of the current orderStatus.
markAsPaid_alwaysConfirms(o, result, now) ==
  updateStatus([o EXCEPT !.paymentStatus = "paid",
                         !.paymentDetails =
                            [@ EXCEPT !.mpesaReceiptNumber = result.mpesaReceiptNumber,
                                      !.transactionId = result.checkoutRequestId,
                                      !.phoneNumber = result.phoneNumber,
                                      !.paidAt = now]],
               "confirmed", "Payment received and order confirmed")

\* markAsPaid without its auto-confirm branch.
markAsPaid_neverConfirms(o, result, now) ==
  [o EXCEPT !.paymentStatus = "paid",
            !.paymentDetails =
               [@ EXCEPT !.mpesaReceiptNumber = result.mpesaReceiptNumber,
                         !.transactionId = result.checkoutRequestId,
                         !.phoneNumber = result.phoneNumber,
                         !.paidAt = now]]

\* orderSchema.methods.markAsPaid on the loaded copy.
markAsPaid(o, result, now) ==
  LET paid == [o EXCEPT !.paymentStatus = "paid",
                        !.paymentDetails =
                           [@ EXCEPT !.mpesaReceiptNumber = result.mpesaReceiptNumber,
                                     !.transactionId = result.checkoutRequestId,
                                     !.phoneNumber = result.phoneNumber,
                                     !.paidAt = now]]
  IN IF o.orderStatus = "pending"
       THEN updateStatus(paid, "confirmed", "Payment received and order confirmed")
       ELSE paid

\* The failure branch of mpesaCallback on the loaded copy.
markAsFailed(o, result) ==
  [o EXCEPT !.paymentStatus = "failed",
            !.paymentDetails = [@ EXCEPT !.failureReason = result.resultDesc]]

\* A handler that passes what it caught on to the error middleware.
callbackResponse_rethrows(outcome) ==
  IF outcome = "threw" THEN "ServerError" ELSE "Accepted"

\* What mpesaCallback answers, by how it went: no order found, reconciled,
\* or an error caught.  "Accepted" is HTTP 200 with
\* {ResultCode: 0, ResultDesc: 'Accepted'}.
callbackResponse(outcome) == "Accepted"

\* The request arrives; processCallback runs before the first await, and if
\* it throws the handler answers at once.
mpesaCallback(r, body) ==
  /\ body \in Callbacks(0..Len(pushes))
  /\ Begin(r, IF processCallback_throws(body)
               THEN [IdleReq EXCEPT !.kind = "mpesaCallback", !.pc = "done",
                                    !.result = callbackResponse("threw")]
               ELSE [IdleReq EXCEPT !.kind = "mpesaCallback", !.pc = "findOne",
                                    !.arg = body])
  /\ UNCHANGED <<stock, orders, pushes, clock, restored>>

\* Order.findOne resolves; markAsPaid (or the failure branch) runs up to its
\* save(), reading the clock for paidAt.
mpesaCallback_findOne(r, t) ==
  LET q == req[r]
      result == processCallback(q.arg)
      id == findOne(result.checkoutRequestId)
  IN
  /\ q.kind = "mpesaCallback" /\ q.pc = "findOne"
  /\ IF id = 0
       THEN /\ Step(r, Finish(r, callbackResponse("noOrder")))
            /\ UNCHANGED clock
       ELSE IF result.success
         THEN /\ t >= clock
              /\ clock' = t
              /\ Step(r, [q EXCEPT !.pc = "save", !.order = id, !.doc = orders[id], !.now = t])
         ELSE /\ Step(r, [q EXCEPT !.pc = "save", !.order = id, !.doc = orders[id]])
              /\ UNCHANGED clock
  /\ UNCHANGED <<stock, orders, budget, pushes, restored>>

\* save() resolves (written) or rejects; a rejection is caught by the handler.
mpesaCallback_save(r, written) ==
  LET q == req[r]
      result == processCallback(q.arg)
      cur == IF result.success THEN markAsPaid(q.doc, result, q.now) ELSE markAsFailed(q.doc, result)
  IN
  /\ q.kind = "mpesaCallback" /\ q.pc = "save"
  /\ IF written
       THEN /\ orders' = [orders EXCEPT ![q.order] = save(@, q.doc, cur)]
            /\ Step(r, Finish(r, callbackResponse("reconciled")))
       ELSE /\ UNCHANGED orders
            /\ Step(r, Finish(r, callbackResponse("threw")))
  /\ UNCHANGED <<stock, budget, pushes, clock, restored>>

\* ------------------------------------------------------------ checkPaymentStatus
checkPaymentStatus(r, tx) ==
  /\ tx \in 0..Len(pushes)
  /\ Begin(r, [IdleReq EXCEPT !.kind = "checkPaymentStatus", !.pc = "findOne", !.arg = tx])
  /\ UNCHANGED <<stock, orders, pushes, clock, restored>>

checkPaymentStatus_findOne(r) ==
  LET q == req[r]
      id == findOne(q.arg)
  IN
  /\ q.kind = "checkPaymentStatus" /\ q.pc = "findOne"
  /\ IF id = 0
       THEN Step(r, Finish(r, "NotFound"))
       ELSE IF orders[id].paymentStatus = "paid"
         THEN Step(r, [Finish(r, "paid") EXCEPT !.order = id])
         ELSE Step(r, [q EXCEPT !.pc = "querySTKPushStatus", !.order = id])
  /\ UNCHANGED <<stock, orders, budget, pushes, clock, restored>>

\* The gateway's answer is passed on to the caller; the order is not touched.
checkPaymentStatus_querySTKPushStatus(r, status) ==
  LET q == req[r] IN
  /\ q.kind = "checkPaymentStatus" /\ q.pc = "querySTKPushStatus"
  /\ Step(r, Finish(r, status))
  /\ UNCHANGED <<stock, orders, budget, pushes, clock, restored>>

\* ------------------------------------------------------------ system
InitDb ==
  /\ stock = SeedStock
  /\ orders = <<>>
  /\ restored = <<>>
  /\ pushes = <<>>
  /\ clock = 1
  /\ req = [r \in Procs |-> IdleReq]

Init == InitDb /\ budget = MaxRequests /\ phoneCall = NoCall

\* Orders, stock and the admin's status updates.
Next ==
  \/ \E r \in Procs, items \in ItemLists, city \in Cities : createOrder(r, items, city)
  \/ \E r \in Procs : createOrder_findById(r)
  \/ \E r \in Procs : createOrder_updateStock(r)
  \/ \E r \in Procs : createOrder_countDocuments(r)
  \/ \E r \in Procs : createOrder_create(r)
  \/ \E r \in Procs, id \in 1..MaxRequests : cancelOrder(r, id)
  \/ \E r \in Procs : cancelOrder_findById(r)
  \/ \E r \in Procs : cancelOrder_save(r)
  \/ \E r \in Procs : cancelOrder_restore(r)
  \/ \E r \in Procs, id \in 1..MaxRequests, s \in TargetStatuses : updateOrderStatus(r, id, s)
  \/ \E r \in Procs : updateOrderStatus_findById(r)
  \/ \E r \in Procs : updateOrderStatus_save(r)

Spec == Init /\ [][Next]_vars

\* Payment of an order of one line item, with the admin and cancel requests;
\* orders are placed until the first one is persisted.
InitPayment == InitDb /\ budget = MaxPayRequests /\ phoneCall = NoCall

PayItems == {<<[product |-> "p2", quantity |-> 1]>>}
Amounts == {orders[i].total + d : i \in 1..Len(orders), d \in {0, 2}}

NextPayment ==
  \/ \E r \in Procs, items \in PayItems, city \in Cities :
       orders = <<>> /\ createOrder(r, items, city)
  \/ \E r \in Procs : createOrder_findById(r)
  \/ \E r \in Procs : createOrder_updateStock(r)
  \/ \E r \in Procs : createOrder_countDocuments(r)
  \/ \E r \in Procs : createOrder_create(r)
  \/ \E r \in Procs, id \in 1..MaxPayRequests, a \in Amounts : initiatePayment(r, id, a)
  \/ \E r \in Procs : initiatePayment_findById(r)
  \/ \E r \in Procs, outcome \in GatewayOutcomes : initiatePayment_initiateSTKPush(r, outcome)
  \/ \E r \in Procs : initiatePayment_save(r)
  \/ \E r \in Procs, body \in Callbacks(0..MaxPayRequests) : mpesaCallback(r, body)
  \/ \E r \in Procs, t \in 1..MaxClock : mpesaCallback_findOne(r, t)
  \/ \E r \in Procs, written \in BOOLEAN : mpesaCallback_save(r, written)
  \/ \E r \in Procs, tx \in 0..MaxPayRequests : checkPaymentStatus(r, tx)
  \/ \E r \in Procs : checkPaymentStatus_findOne(r)
  \/ \E r \in Procs, st \in {"success", "failed"} : checkPaymentStatus_querySTKPushStatus(r, st)
  \/ \E r \in Procs, id \in 1..MaxPayRequests : cancelOrder(r, id)
  \/ \E r \in Procs : cancelOrder_findById(r)
  \/ \E r \in Procs : cancelOrder_save(r)
  \/ \E r \in Procs : cancelOrder_restore(r)
  \/ \E r \in Procs, id \in 1..MaxPayRequests, s \in TargetStatuses : updateOrderStatus(r, id, s)
  \/ \E r \in Procs : updateOrderStatus_findById(r)
  \/ \E r \in Procs : updateOrderStatus_save(r)

SpecPayment == InitPayment /\ [][NextPayment]_vars

\* Calls of formatPhoneNumber on their own.
InitPhone ==
  /\ InitDb /\ budget = 0
  /\ phoneCall \in {[NoCall EXCEPT !.input = str] : str \in PhoneInputs}

NextPhone == callFormatPhoneNumber

SpecPhone == InitPhone /\ [][NextPhone]_vars

\* ============================================================ claims
OrderIds == 1..Len(orders)
Cancelling(i) == \E r \in Procs : Active(r) /\ req[r].kind = "cancelOrder" /\ req[r].order = i
Quiet == \A r \in Procs : ~Active(r)
PaymentNote == "Payment received and order confirmed"
NotesOf(o, note) == {k \in 1..Len(o.statusHistory) : o.statusHistory[k].note = note}

\* C1: of the createOrder requests for the last unit of a product (seeded
\* with stock 1, nothing given back by a cancel) at most one persists an order.
C1_LastUnitSoldOnce ==
  \A p \in Products :
    (SeedStock[p] = 1 /\ \A i \in OrderIds : restored[i][p] = 0)
      => Cardinality({i \in OrderIds : Units(orders[i].items, p) > 0}) <= 1

\* C2: a createOrder request that fails with the insufficient-stock error,
\* with no other request in progress meanwhile, leaves every product's stock
\* at the value it had when the request started.
C2_FailedOrderLeavesStock ==
  [][\A r \in Procs :
       (/\ req[r].kind = "createOrder" /\ Active(r) /\ req[r].solo
        /\ req'[r].pc = "done" /\ req'[r].result = "InsufficientStock")
       => stock' = req[r].pre]_vars

\* C3: for every cancelled order that no cancel request is still working on,
\* each product got back exactly the units of the order's line items.
C3_CancelledRestoredOnce ==
  \A i \in OrderIds :
    (orders[i].orderStatus = "cancelled" /\ ~Cancelling(i))
      => \A p \in Products : restored[i][p] = Units(orders[i].items, p)

\* The order as stored after a handler that loaded o saves its changed copy
\* with no other write in between.
Saved(o, cur) == save(o, o, cur)
\* The success outcomes the gateway may deliver for transaction tx.
SuccessResults(tx) ==
  {processCallback([stk |-> TRUE, tx |-> tx, code |-> 0, receipt |-> rc]) :
     rc \in {Receipt, Undefined}}

\* C4: markAsPaid is idempotent on statusHistory and paymentStatus: applied
\* to any stored order and then again with the same receipt data, the second
\* call leaves the statusHistory as long as the first left it and
\* paymentStatus paid.
C4_MarkAsPaidIdempotent ==
  \A i \in OrderIds :
    \A res \in SuccessResults(orders[i].paymentDetails.transactionId) :
      \A t2 \in clock..MaxClock :
        LET once  == Saved(orders[i], markAsPaid(orders[i], res, clock))
            twice == Saved(once, markAsPaid(once, res, t2))
        IN /\ Len(twice.statusHistory) = Len(once.statusHistory)
           /\ twice.paymentStatus = "paid"

\* A success callback has loaded an order that an earlier markAsPaid with the
\* same receipt had paid and confirmed, and has run markAsPaid on it again.
C4_Witness ==
  \E r \in Procs :
    /\ req[r].kind = "mpesaCallback" /\ req[r].pc = "save"
    /\ processCallback(req[r].arg).success
    /\ req[r].doc.paymentStatus = "paid"
    /\ req[r].doc.orderStatus = "confirmed"
    /\ req[r].doc.paymentDetails.mpesaReceiptNumber = req[r].arg.receipt
    /\ NotesOf(req[r].doc, PaymentNote) # {}

\* C5: a success callback that found its order already paid with the same
\* receipt and transaction id leaves the stored order as it is.
C5_DuplicateDeliveryNoOp ==
  [][\A r \in Procs :
       (/\ req[r].kind = "mpesaCallback" /\ req[r].pc = "save" /\ req'[r].pc = "done"
        /\ processCallback(req[r].arg).success
        /\ req[r].doc.paymentStatus = "paid"
        /\ req[r].doc.paymentDetails.mpesaReceiptNumber = req[r].arg.receipt
        /\ req[r].doc.paymentDetails.transactionId = req[r].arg.tx)
       => orders'[req[r].order] = orders[req[r].order]]_vars

\* C6: an order whose status the admin never changed has at most one
\* 'confirmed' statusHistory entry written by a payment, however the
\* reconciliations of its success outcome overlap.
C6_SinglePaymentConfirmation ==
  \A i \in OrderIds :
    NotesOf(orders[i], "Status changed") = {}
      => Cardinality(NotesOf(orders[i], PaymentNote)) <= 1

\* C7: the stock of every product is at least 0 in every reachable state.
C7_StockNeverNegative == \A p \in Products : stock[p] >= 0

\* A product is sold out while units of a cancelled order have been given back.
C7_Witness ==
  /\ \E p \in Products : stock[p] = 0
  /\ \E i \in OrderIds, p \in Products : restored[i][p] > 0
  /\ \E r \in Procs : req[r].kind = "createOrder" /\ Active(r)

RECURSIVE LineTotal(_)
LineTotal(items) ==
  IF items = <<>> THEN 0
  ELSE Head(items).price * Head(items).quantity + LineTotal(Tail(items))

\* C8: every persisted order's total is the sum of price times quantity of
\* its line items plus the delivery fee, and once every request so far was a
\* createOrder that succeeded, each product's stock is lower than the seeded
\* stock by exactly the units of the persisted orders.
C8_CreatedOrderTotalAndStock ==
  /\ \A i \in OrderIds : orders[i].total = LineTotal(orders[i].items) + orders[i].deliveryFee
  /\ (Quiet /\ Len(orders) = MaxRequests - budget)
       => \A p \in Products :
            stock[p] = SeedStock[p] - SumSeq([i \in OrderIds |-> Units(orders[i].items, p)])

\* C9: a cancel request that reads an order whose orderStatus is neither
\* pending nor confirmed ends with the blocking-state error in that step,
\* and the step changes no order and no product's stock.
C9_BlockedCancel ==
  [][\A r \in Procs :
       (/\ req[r].kind = "cancelOrder" /\ req[r].pc = "findById"
        /\ req'[r].pc # "findById"
        /\ orders[req[r].order].orderStatus \notin {"pending", "confirmed"})
       => (/\ req'[r].pc = "done" /\ req'[r].result = "CannotBeCancelled"
           /\ orders' = orders /\ stock' = stock /\ restored' = restored)]_vars

\* A cancel request on a shipped or delivered order was turned down.
C9_Witness ==
  \E r \in Procs :
    /\ req[r].kind = "cancelOrder" /\ req[r].pc = "done"
    /\ req[r].result = "CannotBeCancelled"
    /\ orders[req[r].order].orderStatus \in {"shipped", "delivered"}
    /\ \A i \in OrderIds, p \in Products : restored[i][p] = 0

\* C10: an updateOrderStatus request whose target status is cancelled, or
\* that loaded an order whose orderStatus is cancelled, leaves the stored
\* orderStatus and statusHistory as they are.
C10_UpdateStatusRejectsCancelled ==
  [][\A r \in Procs :
       (/\ req[r].kind = "updateOrderStatus" /\ req[r].pc = "save" /\ req'[r].pc = "done"
        /\ (req[r].arg = "cancelled" \/ req[r].doc.orderStatus = "cancelled"))
       => (/\ orders'[req[r].order].orderStatus = orders[req[r].order].orderStatus
           /\ orders'[req[r].order].statusHistory = orders[req[r].order].statusHistory)]_vars

\* C11: in every step that changes an order's orderStatus to cancelled, the
\* orderStatus stored right before the step was pending or confirmed.
C11_CancelledOnlyFromPendingOrConfirmed ==
  [][\A i \in OrderIds :
       (orders'[i].orderStatus = "cancelled" /\ orders[i].orderStatus # "cancelled")
         => orders[i].orderStatus \in {"pending", "confirmed"}]_vars

\* C12: every mpesaCallback request that has been answered was answered
\* Accepted (HTTP 200, ResultCode 0), whether processCallback threw on the
\* body, no order matched, the outcome was a success or a failure, or save()
\* rejected.
C12_CallbackAlwaysAccepted ==
  \A r \in Procs :
    (req[r].kind = "mpesaCallback" /\ req[r].pc = "done") => req[r].result = "Accepted"

\* Two callbacks were answered: one that got to no order, and one whose
\* order is still unpaid and unfailed, its save() having rejected.
C12_Witness ==
  \E r, q \in Procs :
    /\ req[r].kind = "mpesaCallback" /\ req[r].pc = "done" /\ req[r].order = 0
    /\ req[q].kind = "mpesaCallback" /\ req[q].pc = "done" /\ req[q].order # 0
    /\ orders[req[q].order].paymentStatus = "pending"

\* C13: a callback whose CheckoutRequestID is no order's
\* paymentDetails.transactionId is answered Accepted in the step that looks
\* the order up, and that step changes no order and no product's stock.
C13_UnknownTransactionNoMutation ==
  [][\A r \in Procs :
       (/\ req[r].kind = "mpesaCallback" /\ req[r].pc = "findOne"
        /\ req'[r].pc # "findOne"
        /\ \A i \in OrderIds : orders[i].paymentDetails.transactionId # req[r].arg.tx)
       => (/\ req'[r].pc = "done" /\ req'[r].result = "Accepted"
           /\ orders' = orders /\ stock' = stock)]_vars

\* A callback was answered without reaching an order while an order had a
\* transaction id on record.
C13_Witness ==
  \E r \in Procs :
    /\ req[r].kind = "mpesaCallback" /\ req[r].pc = "done" /\ req[r].order = 0
    /\ \E i \in OrderIds : orders[i].paymentDetails.transactionId # NoTx
    /\ \A i \in OrderIds : orders[i].paymentStatus = "pending"

\* C14: the save() of a callback that carries a failure outcome leaves the
\* order with paymentStatus failed and the gateway's result description as
\* its failure reason, and with the orderStatus, the statusHistory and every
\* product's stock as they were.
C14_FailureCallbackStoresReason ==
  [][\A r \in Procs :
       (/\ req[r].kind = "mpesaCallback" /\ req[r].pc = "save"
        /\ ~processCallback(req[r].arg).success
        /\ mpesaCallback_save(r, TRUE))
       => LET i == req[r].order IN
          /\ orders'[i].paymentStatus = "failed"
          /\ orders'[i].paymentDetails.failureReason = processCallback(req[r].arg).resultDesc
          /\ orders'[i].orderStatus = orders[i].orderStatus
          /\ orders'[i].statusHistory = orders[i].statusHistory
          /\ stock' = stock]_vars

\* C15: every order whose paymentStatus is paid has paymentDetails.paidAt
\* and paymentDetails.mpesaReceiptNumber set.
C15_PaidHasReceiptAndTime ==
  \A i \in OrderIds :
    orders[i].paymentStatus = "paid"
      => (/\ orders[i].paymentDetails.paidAt # 0
          /\ orders[i].paymentDetails.mpesaReceiptNumber # Undefined)

AbsDiff(a, b) == IF a >= b THEN a - b ELSE b - a

\* C16: an initiatePayment request that reads a paid order, or whose amount
\* differs from the order's total by more than 1, ends in that step with the
\* already-paid or the amount-mismatch error (both 400), calls the gateway
\* not at all and changes no order; a push is accepted only for a request
\* that read an unpaid order and came with an amount within 1 of its total.
C16_PushOnlyIfUnpaidAndAmountMatches ==
  [][\A r \in Procs :
       req[r].kind = "initiatePayment" =>
         /\ (/\ req[r].pc = "findById" /\ req'[r].pc # "findById"
             /\ \/ orders[req[r].order].paymentStatus = "paid"
                \/ AbsDiff(req[r].arg, orders[req[r].order].total) > 1)
            => (/\ req'[r].pc = "done"
                /\ req'[r].result \in {"AlreadyPaid", "AmountMismatch"}
                /\ orders' = orders /\ pushes' = pushes)
         /\ (req[r].pc = "initiateSTKPush" /\ pushes' # pushes)
            => (/\ req[r].doc.paymentStatus # "paid"
                /\ AbsDiff(req[r].arg, req[r].doc.total) <= 1)]_vars

\* A request for a paid order was turned down after a push had been accepted.
C16_Witness ==
  \E r \in Procs :
    /\ req[r].kind = "initiatePayment" /\ req[r].pc = "done"
    /\ req[r].result = "AlreadyPaid"
    /\ pushes # <<>>
    /\ orders[req[r].order].paymentStatus = "paid"

\* C17: a transactionId on record is not replaced by another while the
\* order's payment is still pending, that is, while the attempt it stands for
\* has had no outcome.
C17_OutstandingAttemptNotOverwritten ==
  [][\A i \in OrderIds :
       (/\ orders[i].paymentDetails.transactionId # NoTx
        /\ orders[i].paymentStatus = "pending"
        /\ orders'[i].paymentStatus = "pending")
       => orders'[i].paymentDetails.transactionId = orders[i].paymentDetails.transactionId]_vars

\* C18: an initiatePayment request whose call of the gateway was not
\* accepted ends in that step with the order unchanged, and whenever an
\* order's transactionId changes, the new value is the CheckoutRequestID of a
\* push the gateway accepted for that order.
C18_TransactionIdOnlyAfterAccepted ==
  [][/\ \A r \in Procs :
          (/\ req[r].kind = "initiatePayment" /\ req[r].pc = "initiateSTKPush"
           /\ req'[r].pc # "initiateSTKPush" /\ pushes' = pushes)
          => (/\ req'[r].pc = "done" /\ req'[r].result = "PaymentFailed"
              /\ orders' = orders)
     /\ \A i \in OrderIds :
          orders'[i].paymentDetails.transactionId # orders[i].paymentDetails.transactionId
          => (/\ orders'[i].paymentDetails.transactionId \in 1..Len(pushes)
              /\ pushes[orders'[i].paymentDetails.transactionId] = i)]_vars

\* A push was turned down or lost, its request ended with the error, and the
\* order has no transaction id on record.
C18_Witness ==
  \E r \in Procs :
    /\ req[r].kind = "initiatePayment" /\ req[r].pc = "done"
    /\ req[r].result = "PaymentFailed"
    /\ orders[req[r].order].paymentDetails.transactionId = NoTx
    /\ pushes = <<>>

\* C19: what the caller of initiatePayment gets when the gateway could not be
\* reached (no answer, no token) is never what it gets when the gateway
\* turned the push down.
C19_UpstreamFailureDistinct ==
  [][\A r \in Procs, u \in UpstreamFailures :
       (/\ req[r].kind = "initiatePayment" /\ req[r].pc = "initiateSTKPush"
        /\ initiatePayment_initiateSTKPush(r, u))
       => \A b \in BusinessFailures : req'[r].result # pushError(b)]_vars

\* C20: a createOrder request that ends without a persisted order because a
\* product was not found or Order.create failed, with no other request in
\* progress meanwhile, leaves every product's stock at the value it had when
\* the request started.
C20_UnpersistedOrderLeavesStock ==
  [][\A r \in Procs :
       (/\ req[r].kind = "createOrder" /\ Active(r) /\ req[r].solo
        /\ req'[r].pc = "done"
        /\ req'[r].result \in {"ProductNotFound", "DuplicateOrderNumber"})
       => stock' = req[r].pre]_vars

\* C21: no step changes the items, subtotal, deliveryFee or total of a
\* persisted order, and after every step every order's total is its subtotal
\* plus its deliveryFee.
C21_TotalsImmutable ==
  [][/\ \A i \in OrderIds :
          /\ orders'[i].items = orders[i].items
          /\ orders'[i].subtotal = orders[i].subtotal
          /\ orders'[i].deliveryFee = orders[i].deliveryFee
          /\ orders'[i].total = orders[i].total
     /\ \A i \in 1..Len(orders') :
          orders'[i].total = orders'[i].subtotal + orders'[i].deliveryFee]_vars

\* An order has been pushed for, paid, moved on by the admin and cancelled.
C21_Witness ==
  \E i \in OrderIds :
    /\ orders[i].paymentStatus = "paid"
    /\ orders[i].paymentDetails.transactionId # NoTx
    /\ orders[i].orderStatus = "cancelled"
    /\ orders[i].total = 950

Local == <<"0", "7", "1", "2", "3", "4", "5", "6", "7", "8">>
International ==
  <<"+", "2", "5", "4", " ", "7", "1", "2", " ", "3", "4", "5", " ", "6", "7", "8">>
Normalised == <<"2", "5", "4", "7", "1", "2", "3", "4", "5", "6", "7", "8">>

\* C22: formatPhoneNumber returns "254712345678" for "0712345678" and for
\* "+254 712 345 678", and whatever it returns has exactly 12 characters, all
\* of them digits, the first three being 254.
C22_FormatPhoneNumber ==
  phoneCall.result.status # "none" =>
    /\ phoneCall.input \in {Local, International}
         => phoneCall.result = [status |-> "returned", value |-> Normalised]
    /\ phoneCall.result.status = "returned"
         => (/\ Len(phoneCall.result.value) = 12
             /\ \A k \in 1..Len(phoneCall.result.value) : phoneCall.result.value[k] \in Digits
             /\ SubSeq(phoneCall.result.value, 1, 3) = <<"2", "5", "4">>)

IsPrefix(s, t) == Len(s) <= Len(t) /\ SubSeq(t, 1, Len(s)) = s

\* C23: every persisted order's statusHistory has at least one entry, the
\* first of status pending, and in every step, overlapping requests on the
\* same order included, the statusHistory before the step is a prefix of the
\* statusHistory after it.
C23_StatusHistoryAppendOnly ==
  [][/\ \A i \in OrderIds : IsPrefix(orders[i].statusHistory, orders'[i].statusHistory)
     /\ \A i \in 1..Len(orders') :
          /\ Len(orders'[i].statusHistory) >= 1
          /\ orders'[i].statusHistory[1].status = "pending"]_vars

\* A request is about to save its copy of an order to whose statusHistory
\* another request has appended since the copy was loaded.
C23_Witness ==
  \E r \in Procs :
    /\ req[r].pc = "save"
    /\ req[r].kind \in {"updateOrderStatus", "cancelOrder", "mpesaCallback"}
    /\ Len(orders[req[r].order].statusHistory) > Len(req[r].doc.statusHistory)
    /\ Len(orders[req[r].order].statusHistory) >= 3

\* C24: markAsPaid, applied to any stored order with a success outcome and
\* saved, leaves paymentStatus paid; when the order's orderStatus was pending
\* it leaves orderStatus confirmed and the statusHistory longer by exactly one
\* entry, of status confirmed; for any other orderStatus it leaves
\* orderStatus and statusHistory as they were.
C24_MarkAsPaidConfirmsPending ==
  \A i \in OrderIds :
    \A res \in SuccessResults(orders[i].paymentDetails.transactionId) :
      LET o == orders[i]
          after == Saved(o, markAsPaid(o, res, clock))
      IN /\ after.paymentStatus = "paid"
         /\ IF o.orderStatus = "pending"
              THEN /\ after.orderStatus = "confirmed"
                   /\ Len(after.statusHistory) = Len(o.statusHistory) + 1
                   /\ IsPrefix(o.statusHistory, after.statusHistory)
                   /\ after.statusHistory[Len(after.statusHistory)].status = "confirmed"
              ELSE /\ after.orderStatus = o.orderStatus
                   /\ after.statusHistory = o.statusHistory

\* A success callback has run markAsPaid on an unpaid order that was no
\* longer pending.
C24_Witness ==
  \E r \in Procs :
    /\ req[r].kind = "mpesaCallback" /\ req[r].pc = "save"
    /\ processCallback(req[r].arg).success
    /\ req[r].doc.paymentStatus # "paid"
    /\ req[r].doc.orderStatus \in {"shipped", "delivered", "cancelled"}

\* C25: a callback with a success outcome (ResultCode 0) for the transaction
\* id of an order is not answered before the order has been looked up,
\* whatever is missing from its metadata: reconciliation goes on.
C25_MissingMetadataDoesNotAbort ==
  [][\A r \in Procs, body \in Callbacks(1..Len(pushes)) :
       (/\ body.stk /\ body.code = 0
        /\ findOne(body.tx) # 0
        /\ mpesaCallback(r, body))
       => req'[r].pc = "findOne"]_vars

\* C26: an order whose paymentStatus is paid has paymentStatus paid after
\* every step.
C26_PaidStaysPaid ==
  [][\A i \in OrderIds :
       orders[i].paymentStatus = "paid" => orders'[i].paymentStatus = "paid"]_vars

\* C27: a callback with a success outcome for a push the gateway accepted,
\* whose order has no other transaction id on record, finds that order and
\* goes on to mark it paid.
C27_SuccessForAcceptedPushFindsOrder ==
  [][\A r \in Procs :
       (/\ req[r].kind = "mpesaCallback" /\ req[r].pc = "findOne"
        /\ req'[r].pc # "findOne"
        /\ processCallback(req[r].arg).success
        /\ req[r].arg.tx \in 1..Len(pushes)
        /\ orders[pushes[req[r].arg.tx]].paymentDetails.transactionId
             \in {NoTx, req[r].arg.tx})
       => (req'[r].pc = "save" /\ req'[r].order = pushes[req[r].arg.tx])]_vars

\* C28: whenever no request is in progress, every product's stock plus the
\* units of it in the persisted orders that are not cancelled is the stock
\* the product was seeded with.
C28_StockConserved ==
  Quiet =>
    \A p \in Products :
      stock[p] + SumSeq([i \in OrderIds |->
                           IF orders[i].orderStatus # "cancelled"
                             THEN Units(orders[i].items, p) ELSE 0])
        = SeedStock[p]

\* C29: the status of the last statusHistory entry of every order is the
\* order's orderStatus.
C29_LastEntryIsOrderStatus ==
  \A i \in OrderIds :
    orders[i].statusHistory[Len(orders[i].statusHistory)].status = orders[i].orderStatus

\* C30: no step changes to paid the paymentStatus of an order whose
\* orderStatus is cancelled.
C30_CancelledNeverPaid ==
  [][\A i \in OrderIds :
       (orders[i].orderStatus = "cancelled" /\ orders[i].paymentStatus # "paid")
         => orders'[i].paymentStatus # "paid"]_vars

====
